---------------------------- MODULE Spec2Model ----------------------------
(***************************************************************************)
(* A model of starlette_admin/contrib/sqla/helpers.py: the filter          *)
(* compiler (expression, build_query), the order-by builder                *)
(* (build_order_clauses), the type-to-field converter (convert_to_field    *)
(* over the converters table) and the field-list normaliser                *)
(* (normalize_fields, normalize_list).                                     *)
(*                                                                         *)
(* The SQL constructs the helpers build (and_, or_, not_, comparisons) are *)
(* kept as expression trees; Eval gives them the meaning the relational    *)
(* layer gives them when the tree is used as a WHERE clause (three-valued  *)
(* logic, and a clause list without clauses rendering as nothing).         *)
(***************************************************************************)
EXTENDS Integers, Sequences, FiniteSets, TLC

VARIABLES
    converters,   \* the module-level converters table
    heap,         \* the caller's BaseField instances: id -> object
    pc,           \* "ready" (arguments chosen), "done" (call returned or raised), "idle"
    op,           \* the function called
    arg,          \* its arguments
    row,          \* the table row a returned WHERE clause is read for
    ret,          \* what it returned
    raised,       \* the exception it raised, or "none"
    calls         \* how many calls have been made

vars == <<converters, heap, pc, op, arg, row, ret, raised, calls>>

---------------------------------------------------------------------------
(* Bounds of the model *)

\* integer column values range over 0..MaxInt
MaxInt == 2
\* an "and"/"or" list holds 1..MaxList filter dictionaries
MaxList == 2

---------------------------------------------------------------------------
(* Python / SQL values.  One record shape for all of them, so that any two *)
(* can be compared: t is the type tag, n the number (0/1 for a boolean),   *)
(* s the characters of a string.                                           *)

None == [t |-> "null", n |-> 0, s |-> <<>>]
Bool(b) == [t |-> "bool", n |-> IF b THEN 1 ELSE 0, s |-> <<>>]
Num(i) == [t |-> "int", n |-> i, s |-> <<>>]
Str(cs) == [t |-> "str", n |-> 0, s |-> cs]

\* isinstance(v, bool)
IsBool(v) == v.t = "bool"

RECURSIVE LexLess(_, _)
\* the ordering of two strings, character by character ("a" < "b")
LexLess(a, b) ==
    IF b = <<>> THEN FALSE
    ELSE IF a = <<>> THEN TRUE
    ELSE IF Head(a) # Head(b) THEN Head(a) = "a"
    ELSE LexLess(Tail(a), Tail(b))

\* x < v for two non-null values: strings by their characters, numbers and
\* booleans by their number (a boolean is stored as 0 or 1)
Less(x, v) ==
    IF x.t = "str" /\ v.t = "str" THEN LexLess(x.s, v.s) ELSE x.n < v.n

\* x = v for two non-null values
Same(x, v) ==
    IF x.t = "str" \/ v.t = "str" THEN x.t = v.t /\ x.s = v.s ELSE x.n = v.n

\* a SQL truth value from a boolean
TV(b) == IF b THEN "T" ELSE "F"

\* a comparison in SQL: unknown ("N") as soon as one side is NULL
Compare(cmp, x, v) ==
    IF x.t = "null" \/ v.t = "null" THEN "N"
    ELSE CASE cmp = "=" -> TV(Same(x, v))
           [] cmp = "!=" -> TV(~Same(x, v))
           [] cmp = "<" -> TV(Less(x, v))
           [] cmp = "<=" -> TV(Less(x, v) \/ Same(x, v))
           [] cmp = ">" -> TV(Less(v, x))
           [] cmp = ">=" -> TV(Less(v, x) \/ Same(x, v))

\* three-valued NOT, AND, OR
Not3(a) == CASE a = "T" -> "F" [] a = "F" -> "T" [] OTHER -> a
And3(a, b) ==
    IF a = "X" \/ b = "X" THEN "X"
    ELSE IF a = "F" \/ b = "F" THEN "F"
    ELSE IF a = "N" \/ b = "N" THEN "N" ELSE "T"
Or3(a, b) ==
    IF a = "X" \/ b = "X" THEN "X"
    ELSE IF a = "T" \/ b = "T" THEN "T"
    ELSE IF a = "N" \/ b = "N" THEN "N" ELSE "F"

\* whether sequence a occurs in sequence b starting at position i
OccursAt(a, b, i) ==
    /\ i + Len(a) - 1 <= Len(b)
    /\ \A j \in 1..Len(a) : b[i + j - 1] = a[j]

\* x LIKE a pattern built from v (no wildcard characters in v)
Like(kind, x, v) ==
    IF x.t = "null" \/ v.t = "null" THEN "N"
    ELSE CASE kind = "contains" ->
                TV(\E i \in 1..(Len(x.s) + 1) : OccursAt(v.s, x.s, i))
           [] kind = "startswith" -> TV(OccursAt(v.s, x.s, 1))
           [] kind = "endswith" ->
                TV(Len(v.s) <= Len(x.s) /\ OccursAt(v.s, x.s, Len(x.s) - Len(v.s) + 1))

---------------------------------------------------------------------------
(* SQL expression trees, as the helpers build them *)

Node(k, col, o, vs, args) == [k |-> k, col |-> col, o |-> o, vs |-> vs, args |-> args]

\* p.is_(None), p.is_not(None)
is_(p) == Node("is_null", p, "", <<>>, <<>>)
is_not(p) == Node("is_not_null", p, "", <<>>, <<>>)
\* p == v, p != v, p >= v, ... ; true() and false() are the boolean constants
binary(p, cmp, v) == Node("cmp", p, cmp, <<v>>, <<>>)
true == Bool(TRUE)
false == Bool(FALSE)
between(p, lo, hi) == Node("between", p, "", <<lo, hi>>, <<>>)
in_(p, vs) == Node("in", p, "", vs, <<>>)
contains(p, v) == Node("like", p, "contains", <<v>>, <<>>)
startswith(p, v) == Node("like", p, "startswith", <<v>>, <<>>)
endswith(p, v) == Node("like", p, "endswith", <<v>>, <<>>)
not_(e) == Node("not", "", "", <<>>, <<e>>)
\* p.not_in(vs) is the negation of p.in_(vs)
not_in(p, vs) == not_(in_(p, vs))
\* and_(*clauses), or_(*clauses): a single clause is returned as it is, and
\* no clause at all gives a clause list without clauses
and_(clauses) == IF Len(clauses) = 1 THEN clauses[1] ELSE Node("and", "", "", <<>>, clauses)
or_(clauses) == IF Len(clauses) = 1 THEN clauses[1] ELSE Node("or", "", "", <<>>, clauses)

RECURSIVE FoldIn(_, _, _)
\* x IN (vs[i], ...): true when one comparison is, else unknown when one is
FoldIn(x, vs, i) ==
    IF i > Len(vs) THEN "F" ELSE Or3(Compare("=", x, vs[i]), FoldIn(x, vs, i + 1))

RECURSIVE Eval(_, _)
RECURSIVE FoldBool(_, _, _, _)
\* the clauses args[i..] of an "and"/"or" list joined by the operator; a
\* clause that renders as nothing ("E") is left out of the list
FoldBool(k, args, rw, i) ==
    IF i > Len(args) THEN "E"
    ELSE LET a == Eval(args[i], rw)
             r == FoldBool(k, args, rw, i + 1)
         IN IF a = "E" THEN r
            ELSE IF r = "E" THEN a
            ELSE IF k = "and" THEN And3(a, r) ELSE Or3(a, r)

\* the value of an expression tree for a row: "T", "F", "N" (unknown),
\* "E" (the tree renders as nothing) or "X" (the tree renders no valid SQL)
Eval(e, rw) ==
    CASE e.k = "is_null" -> TV(rw[e.col].t = "null")
      [] e.k = "is_not_null" -> TV(rw[e.col].t # "null")
      [] e.k = "cmp" -> Compare(e.o, rw[e.col], e.vs[1])
      [] e.k = "between" ->
            And3(Compare(">=", rw[e.col], e.vs[1]), Compare("<=", rw[e.col], e.vs[2]))
      [] e.k = "in" -> FoldIn(rw[e.col], e.vs, 1)
      [] e.k = "like" -> Like(e.o, rw[e.col], e.vs[1])
      [] e.k = "not" ->
            LET a == Eval(e.args[1], rw) IN IF a = "E" THEN "X" ELSE Not3(a)
      [] e.k \in {"and", "or"} -> FoldBool(e.k, e.args, rw, 1)

\* a row is selected by WHERE e when e is true for it; a WHERE clause that
\* renders as nothing selects every row
Satisfies(rw, e) == Eval(e, rw) \in {"T", "E"}

---------------------------------------------------------------------------
(* Dictionaries are sequences of entries in insertion order, with distinct *)
(* keys.  An operator entry carries its values in v (one value, the two    *)
(* bounds of a between, the members of an in) or, for "not", the nested    *)
(* operator dictionary in w.                                               *)

OpEntry(key, v, w) == [key |-> key, v |-> v, w |-> w]

\* the filter appended under the key "eq"
eq_filter(p, v) ==
    IF v = None THEN is_(p)
    ELSE IF IsBool(v) THEN (IF v = true THEN binary(p, "=", true) ELSE binary(p, "=", false))
    ELSE binary(p, "=", v)

\* the "neq" branch comparing a boolean as the "eq" branch does
neq_filter_as_eq(p, v) ==
    IF v = None THEN is_not(p)
    ELSE IF IsBool(v) THEN (IF v = true THEN binary(p, "=", true) ELSE binary(p, "=", false))
    ELSE binary(p, "!=", v)

\* the filter appended under the key "neq"
neq_filter(p, v) ==
    IF v = None THEN is_not(p)
    ELSE IF IsBool(v) THEN (IF v # true THEN binary(p, "=", true) ELSE binary(p, "=", false))
    ELSE binary(p, "!=", v)

RECURSIVE expression(_, _)
RECURSIVE expression_filters(_, _, _)
\* the filters list of expression after the loop has handled where[i..]
expression_filters(where, p, i) ==
    IF i > Len(where) THEN <<>>
    ELSE LET key == where[i].key
             val == where[i].v
             rest == expression_filters(where, p, i + 1)
         IN CASE key = "eq" -> <<eq_filter(p, val[1])>> \o rest
              [] key = "ge" -> <<binary(p, ">=", val[1])>> \o rest
              [] key = "gt" -> <<binary(p, ">", val[1])>> \o rest
              [] key = "between" -> <<between(p, val[1], val[2])>> \o rest
              [] key = "not_between" -> <<not_(between(p, val[1], val[2]))>> \o rest
              [] key = "le" -> <<binary(p, "<=", val[1])>> \o rest
              [] key = "lt" -> <<binary(p, "<", val[1])>> \o rest
              [] key = "in" -> <<in_(p, val)>> \o rest
              [] key = "not_in" -> <<not_in(p, val)>> \o rest
              [] key = "contains" -> <<contains(p, val[1])>> \o rest
              [] key = "startsWith" -> <<startswith(p, val[1])>> \o rest
              [] key = "endsWith" -> <<endswith(p, val[1])>> \o rest
              [] key = "not" -> <<not_(expression(where[i].w, p))>> \o rest
              [] key = "neq" -> <<neq_filter(p, val[1])>> \o rest
              [] OTHER -> rest

\* expression(where, p)
expression(where, p) ==
    LET filters == expression_filters(where, p, 1)
    IN IF Len(filters) = 1 THEN filters[1] ELSE and_(filters)

---------------------------------------------------------------------------
(* The mapped class the queries are built for: three nullable columns.     *)

\* the attributes of the model class
ModelAttrs == {"age", "active", "name"}

\* what getattr gives for a name the class does not have
NoAttr == "<None>"

\* getattr giving an attribute for every name
getattr_any(model, key) == key

\* getattr(model, key, None)
getattr(model, key) == IF key \in model THEN key ELSE NoAttr

\* an entry of a filter dictionary: under "and"/"or" the list of filter
\* dictionaries (sub), under any other key the operator dictionary (ops)
FEntry(key, sub, ops) == [key |-> key, sub |-> sub, ops |-> ops]

RECURSIVE build_query(_, _)
RECURSIVE build_query_filters(_, _, _)
\* the filters list of build_query after the loop has handled where[i..]
build_query_filters(where, model, i) ==
    IF i > Len(where) THEN <<>>
    ELSE LET key == where[i].key
             rest == build_query_filters(where, model, i + 1)
         IN IF key = "or"
            THEN <<or_([j \in 1..Len(where[i].sub) |-> build_query(where[i].sub[j], model)])>>
                 \o rest
            ELSE IF key = "and"
            THEN <<and_([j \in 1..Len(where[i].sub) |-> build_query(where[i].sub[j], model)])>>
                 \o rest
            ELSE LET attr == where[i].ops
                     p == getattr(model, key)
                 IN IF p # NoAttr THEN <<expression(attr, p)>> \o rest ELSE rest

\* build_query(where, model)
build_query(where, model) ==
    LET filters == build_query_filters(where, model, 1)
    IN IF Len(filters) = 1 THEN filters[1] ELSE and_(filters)

---------------------------------------------------------------------------
(* Column types.  A class is known by its id; Classes gives its __module__, *)
(* its __name__, the class it derives from and the impl attribute it       *)
(* defines itself ("" when it defines none, else the class the impl is or  *)
(* is an instance of).  Mixin classes, which neither carry a converters    *)
(* key as their name nor define impl, are left out of the chains.          *)

Cls(module, name, base, impl, implIsClass) ==
    [module |-> module, name |-> name, base |-> base, impl |-> impl,
     implIsClass |-> implIsClass]

SqlTypes == "sqlalchemy.sql.sqltypes"

Classes ==
    [c \in {"object", "TypeEngine", "TypeDecorator", "String", "Unicode", "CHAR", "Text",
            "LargeBinary", "Binary", "Boolean", "Date", "DateTime", "Time", "Enum",
            "Integer", "BigInteger", "Numeric", "Float", "JSON", "ARRAY", "PGARRAY",
            "BIT", "BIT2", "YEAR", "YEAR2", "INET", "MACADDR", "UUID", "HSTORE",
            "FileField", "ImageField", "Interval", "MyInt", "EmailType", "MyStr"} |->
        CASE c = "object" -> Cls("builtins", "object", "", "", FALSE)
          [] c = "TypeEngine" -> Cls("sqlalchemy.sql.type_api", "TypeEngine", "object", "", FALSE)
          [] c = "TypeDecorator" ->
                Cls("sqlalchemy.sql.type_api", "TypeDecorator", "TypeEngine", "", FALSE)
          [] c = "String" -> Cls(SqlTypes, "String", "TypeEngine", "", FALSE)
          [] c = "Unicode" -> Cls(SqlTypes, "Unicode", "String", "", FALSE)
          [] c = "CHAR" -> Cls(SqlTypes, "CHAR", "String", "", FALSE)
          [] c = "Text" -> Cls(SqlTypes, "Text", "String", "", FALSE)
          [] c = "LargeBinary" -> Cls(SqlTypes, "LargeBinary", "TypeEngine", "", FALSE)
          [] c = "Binary" -> Cls("sqlalchemy.types", "Binary", "TypeEngine", "", FALSE)
          [] c = "Boolean" -> Cls(SqlTypes, "Boolean", "TypeEngine", "", FALSE)
          [] c = "Date" -> Cls(SqlTypes, "Date", "TypeEngine", "", FALSE)
          [] c = "DateTime" -> Cls(SqlTypes, "DateTime", "TypeEngine", "", FALSE)
          [] c = "Time" -> Cls(SqlTypes, "Time", "TypeEngine", "", FALSE)
          [] c = "Enum" -> Cls(SqlTypes, "Enum", "String", "", FALSE)
          [] c = "Integer" -> Cls(SqlTypes, "Integer", "TypeEngine", "", FALSE)
          [] c = "BigInteger" -> Cls(SqlTypes, "BigInteger", "Integer", "", FALSE)
          [] c = "Numeric" -> Cls(SqlTypes, "Numeric", "TypeEngine", "", FALSE)
          [] c = "Float" -> Cls(SqlTypes, "Float", "Numeric", "", FALSE)
          [] c = "JSON" -> Cls(SqlTypes, "JSON", "TypeEngine", "", FALSE)
          [] c = "ARRAY" -> Cls(SqlTypes, "ARRAY", "TypeEngine", "", FALSE)
          [] c = "PGARRAY" ->
                Cls("sqlalchemy.dialects.postgresql.array", "ARRAY", "ARRAY", "", FALSE)
          \* the dialect types the converters table lists with a module path
          [] c = "BIT" -> Cls("sqlalchemy.dialects.mssql.base", "BIT", "TypeEngine", "", FALSE)
          [] c = "BIT2" -> Cls("sqlalchemy.dialects.mssql.base", "BIT", "Boolean", "", FALSE)
          [] c = "YEAR" -> Cls("sqlalchemy.dialects.mysql.types", "YEAR", "TypeEngine", "", FALSE)
          [] c = "YEAR2" -> Cls("sqlalchemy.dialects.mysql.base", "YEAR", "TypeEngine", "", FALSE)
          [] c = "INET" ->
                Cls("sqlalchemy.dialects.postgresql.base", "INET", "TypeEngine", "", FALSE)
          [] c = "MACADDR" ->
                Cls("sqlalchemy.dialects.postgresql.base", "MACADDR", "TypeEngine", "", FALSE)
          [] c = "UUID" ->
                Cls("sqlalchemy.dialects.postgresql.base", "UUID", "TypeEngine", "", FALSE)
          [] c = "HSTORE" ->
                Cls("sqlalchemy.dialects.postgresql.hstore", "HSTORE", "TypeEngine", "", FALSE)
          \* sqlalchemy-file's types, decorators over JSON
          [] c = "FileField" ->
                Cls("sqlalchemy_file.types", "FileField", "TypeDecorator", "JSON", TRUE)
          [] c = "ImageField" -> Cls("sqlalchemy_file.types", "ImageField", "FileField", "", FALSE)
          \* decorators: impl given as a class, as an instance, over an unlisted class
          [] c = "Interval" -> Cls(SqlTypes, "Interval", "TypeDecorator", "DateTime", TRUE)
          [] c = "MyInt" -> Cls("app.types", "MyInt", "TypeDecorator", "Integer", FALSE)
          [] c = "EmailType" ->
                Cls("sqlalchemy_utils.types.email", "EmailType", "TypeDecorator", "Unicode", TRUE)
          \* a plain subclass of a listed type
          [] c = "MyStr" -> Cls("app.types", "MyStr", "Unicode", "", FALSE)]

RECURSIVE getmro(_)
\* inspect.getmro(cls): the class, then the classes it derives from
getmro(c) == IF Classes[c].base = "" THEN <<c>> ELSE <<c>> \o getmro(Classes[c].base)

\* the members of a sequence
Range(s) == {s[i] : i \in 1..Len(s)}

\* isinstance(obj, cls) for an object of class c
isinstance(c, cls) == cls \in Range(getmro(c))

RECURSIVE impl_owner(_)
\* the class col_type.impl is found on: the first class of the mro that
\* defines impl, "" when none does
impl_owner(c) ==
    IF c = "" THEN ""
    ELSE IF Classes[c].impl # "" THEN c
    ELSE impl_owner(Classes[c].base)

\* hasattr(col_type, "impl")
hasattr_impl(c) == impl_owner(c) # ""

\* the __name__ the impl branch looks up: of impl itself when impl is
\* callable (a class), else of impl.__class__; owner defines the attribute
impl_name_on(owner) ==
    IF owner.implIsClass THEN Classes[owner.impl].name ELSE Classes[owner.impl].name

\* impl.__name__ for col_type.impl
impl_name(c) == impl_name_on(Classes[impl_owner(c)])

\* the converters table as the module defines it
ConvertersTable ==
    [k \in {"String", "CHAR", "Text", "LargeBinary", "Binary", "Boolean",
            "dialects.mssql.base.BIT", "Date", "DateTime", "Time", "Enum", "Integer",
            "Numeric", "JSON", "dialects.mysql.types.YEAR", "dialects.mysql.base.YEAR",
            "dialects.postgresql.base.INET", "dialects.postgresql.base.MACADDR",
            "dialects.postgresql.base.UUID", "sqlalchemy_file.types.FileField",
            "sqlalchemy_file.types.ImageField"} |->
        CASE k \in {"String", "CHAR"} -> "StringField"
          [] k \in {"Text", "LargeBinary", "Binary"} -> "TextAreaField"
          [] k \in {"Boolean", "dialects.mssql.base.BIT"} -> "BooleanField"
          [] k = "Date" -> "DateField"
          [] k = "DateTime" -> "DateTimeField"
          [] k = "Time" -> "TimeField"
          [] k = "Enum" -> "EnumField"
          [] k = "Integer" -> "IntegerField"
          [] k = "Numeric" -> "DecimalField"
          [] k = "JSON" -> "JSONField"
          [] k \in {"dialects.mysql.types.YEAR", "dialects.mysql.base.YEAR",
                    "dialects.postgresql.base.INET", "dialects.postgresql.base.MACADDR",
                    "dialects.postgresql.base.UUID"} -> "StringField"
          [] k = "sqlalchemy_file.types.FileField" -> "FileField"
          [] k = "sqlalchemy_file.types.ImageField" -> "ImageField"]

\* f"{col_type.__module__}.{col_type.__name__}"
type_string(c) == Classes[c].module \o "." \o Classes[c].name

\* a call's outcome: the exception raised ("none" when it returned) and the value
Returned(v) == [exc |-> "none", val |-> v]
Raised(e) == [exc |-> e, val |-> "<no value>"]

\* what a type's dimensions attribute holds when it is None
DimNone == -1

\* a column as Column(type) leaves it: its type's class and the type's
\* dimensions (read for an ARRAY only), enum_class and multiple attributes;
\* nullable, and without default, server default or foreign keys
Col(type, dimensions) ==
    [type |-> type, dimensions |-> dimensions, enum_class |-> "", multiple |-> FALSE,
     nullable |-> TRUE, default |-> FALSE, server_default |-> FALSE,
     foreign_keys |-> FALSE]

RECURSIVE by_module_name(_, _, _)
\* the first loop of convert_to_field over types[i..]: the key found or ""
by_module_name(table, types, i) ==
    IF i > Len(types) THEN ""
    ELSE IF type_string(types[i]) \in DOMAIN table THEN type_string(types[i])
    ELSE by_module_name(table, types, i + 1)

\* the impl branch of the second loop for one class: the key found or ""
by_impl_name(table, name) == IF name \in DOMAIN table THEN name ELSE ""

\* the body of the second loop for one class: the key found or ""
by_name_at(table, col_type) ==
    IF Classes[col_type].name \in DOMAIN table THEN Classes[col_type].name
    ELSE IF hasattr_impl(col_type) THEN by_impl_name(table, impl_name(col_type))
    ELSE ""

\* the first key of a sequence of lookups that found one, or ""
first_found(keys) ==
    IF \A i \in 1..Len(keys) : keys[i] = "" THEN ""
    ELSE keys[CHOOSE i \in 1..Len(keys) : keys[i] # "" /\ \A j \in 1..(i - 1) : keys[j] = ""]

\* the second loop of convert_to_field over types: the key found or ""
by_name(table, types) ==
    first_found([i \in 1..Len(types) |-> by_name_at(table, types[i])])

\* what convert_to_field returns for the keys its two loops found, the
\* first loop's taking precedence
converted(table, k1, k2) ==
    IF k1 # "" THEN Returned(table[k1])
    ELSE IF k2 # "" THEN Returned(table[k2])
    ELSE Raised("NotSupportedColumn")

\* the two loops of convert_to_field over the mro of the column's type
search_mro(table, types) ==
    converted(table, by_module_name(table, types, 1), by_name(table, types))

\* convert_to_field with the ARRAY branch taken whatever the dimensions
convert_to_field_any_dimensions(table, column) ==
    IF isinstance(column.type, "ARRAY")
    THEN Returned("TagsField")
    ELSE search_mro(table, getmro(column.type))

\* convert_to_field(column), reading the converters table
convert_to_field(table, column) ==
    IF isinstance(column.type, "ARRAY")
    THEN IF column.dimensions = DimNone \/ column.dimensions = 1
         THEN Returned("TagsField")
         ELSE Raised("NotSupportedColumn")
    ELSE search_mro(table, getmro(column.type))

---------------------------------------------------------------------------
(* Strings the code takes apart are sequences of characters.               *)

\* str.isspace for one character
IsSpace(c) == c \in {" ", "\t"}

RECURSIVE lstrip(_)
lstrip(s) == IF s # <<>> /\ IsSpace(Head(s)) THEN lstrip(Tail(s)) ELSE s

RECURSIVE rstrip(_)
rstrip(s) ==
    IF s # <<>> /\ IsSpace(s[Len(s)]) THEN rstrip(SubSeq(s, 1, Len(s) - 1)) ELSE s

\* value.strip()
strip(s) == rstrip(lstrip(s))

RECURSIVE first_word(_)
\* the characters of s before its first whitespace
first_word(s) ==
    IF s = <<>> \/ IsSpace(Head(s)) THEN <<>> ELSE <<Head(s)>> \o first_word(Tail(s))

\* s.split(maxsplit=1): no part for a string of whitespace only, one part for
\* a string without whitespace after its first word, else the first word and
\* the rest of the string after the whitespace that follows it
split_maxsplit_1(s) ==
    LET t == lstrip(s)
        w == first_word(t)
        r == lstrip(SubSeq(t, Len(w) + 1, Len(t)))
    IN IF t = <<>> THEN <<>>
       ELSE IF r = <<>> THEN <<w>>
       ELSE <<w, r>>

\* str.lower for one character
lower_char(c) ==
    CASE c = "A" -> "a" [] c = "C" -> "c" [] c = "D" -> "d" [] c = "E" -> "e"
      [] c = "S" -> "s" [] c = "X" -> "x" [] OTHER -> c

\* the direction compared as it is written
lower_missing(s) == s

\* order.lower()
lower(s) == [i \in 1..Len(s) |-> lower_char(s[i])]

RECURSIVE join(_)
\* the string of a sequence of characters
join(s) == IF s = <<>> THEN "" ELSE Head(s) \o join(Tail(s))

\* an order clause: the attribute, descending (attr.desc()) or as it is
Clause(attr, desc) == [attr |-> attr, desc |-> desc]

RECURSIVE build_order_clauses_from(_, _, _)
\* the loop of build_order_clauses over order_list[i..]
build_order_clauses_from(order_list, model, i) ==
    IF i > Len(order_list) THEN Returned(<<>>)
    ELSE LET parts == split_maxsplit_1(strip(order_list[i]))
         IN IF Len(parts) # 2 THEN Raised("ValueError")
            ELSE LET attr_key == parts[1]
                     order == parts[2]
                     attr == getattr(model, join(attr_key))
                     rest == build_order_clauses_from(order_list, model, i + 1)
                 IN IF rest.exc # "none" THEN rest
                    ELSE IF attr # NoAttr
                    THEN Returned(<<Clause(attr, lower(order) = <<"d", "e", "s", "c">>)>>
                                  \o rest.val)
                    ELSE rest

\* build_order_clauses(order_list, model)
build_order_clauses(order_list, model) == build_order_clauses_from(order_list, model, 1)

---------------------------------------------------------------------------
(* normalize_fields.  An entry of the fields list is a BaseField instance  *)
(* of the caller (a reference into the heap), an InstrumentedAttribute, a  *)
(* string, or (for normalize_list) an object of another type.              *)

FieldRef(id) == [e |-> "BaseField", id |-> id, key |-> ""]
AttrEntry(key) == [e |-> "InstrumentedAttribute", id |-> 0, key |-> key]
StrEntry(key) == [e |-> "str", id |-> 0, key |-> key]
OtherEntry == [e |-> "int", id |-> 0, key |-> ""]

\* a mapper property: a relationship (direction, uselist, the class it
\* points to), a column property (its columns) or another kind of property
Prop(kind, key, direction, uselist, entity, columns) ==
    [kind |-> kind, key |-> key, direction |-> direction, uselist |-> uselist,
     entity |-> entity, columns |-> columns]

\* what mapper.attrs.get gives for a key the mapper does not have
NoProp == Prop("None", "", "", FALSE, "", <<>>)

\* mapper.attrs.get(key)
attrs_get(mapper, key) == IF key \in DOMAIN mapper THEN mapper[key] ELSE NoProp

\* slugify_class_name(name), kept as the name it was computed from
slugify_class_name(name) == <<"slug", name>>

\* an element of the list normalize_fields returns: the caller's own object
\* (ref is its id) or a field built by the call (ref is 0)
Built(cls, name, identity, enum) ==
    [ref |-> 0, cls |-> cls, name |-> name, identity |-> identity, enum |-> enum,
     required |-> FALSE, multiple |-> FALSE]
Same_object(id) ==
    [ref |-> id, cls |-> "", name |-> "", identity |-> <<>>, enum |-> "",
     required |-> FALSE, multiple |-> FALSE]

\* the required flag computed without looking at the column's type
required_of_any_type(column) ==
    /\ ~column.nullable
    /\ ~column.default
    /\ ~column.server_default

\* the required flag computed for a column
required_of(column) ==
    /\ ~column.nullable
    /\ ~isinstance(column.type, "Boolean")
    /\ ~column.default
    /\ ~column.server_default

\* the field object made from the class convert_to_field returned
make_field(cls, attr, column) ==
    IF cls = "EnumField"
    THEN Built("EnumField", attr.key, <<>>, column.enum_class)
    ELSE [Built(cls, attr.key, <<>>, "") EXCEPT
            !.multiple = cls \in {"FileField", "ImageField"} /\ column.multiple]

\* what follows the call of convert_to_field, conv being its outcome
after_convert(conv, attr, column) ==
    IF conv.exc # "none" THEN conv
    ELSE Returned(<<[make_field(conv.val, attr, column) EXCEPT
                        !.required = required_of(column)]>>)

\* the field built for a column property without foreign keys
column_field(table, attr, column) ==
    after_convert(convert_to_field(table, column), attr, column)

\* the loop body passing over a key the mapper does not have
normalize_attr_skip_missing(table, attr) ==
    IF attr = NoProp THEN Returned(<<>>)
    ELSE IF attr.kind = "RelationshipProperty"
    THEN IF attr.direction = "MANYTOONE" \/ (attr.direction = "ONETOMANY" /\ ~attr.uselist)
         THEN Returned(<<Built("HasOne", attr.key, slugify_class_name(attr.entity), "")>>)
         ELSE Returned(<<Built("HasMany", attr.key, slugify_class_name(attr.entity), "")>>)
    ELSE IF attr.kind = "ColumnProperty"
    THEN IF Len(attr.columns) # 1 THEN Raised("AssertionError")
         ELSE IF attr.columns[1].foreign_keys THEN Returned(<<>>)
         ELSE column_field(table, attr, attr.columns[1])
    ELSE Returned(<<>>)

\* the loop body of normalize_fields for the property found under the
\* entry's key: what is appended to converted_fields, or the exception raised
normalize_attr(table, attr) ==
    IF attr = NoProp THEN Raised("ValueError")
    ELSE IF attr.kind = "RelationshipProperty"
    THEN IF attr.direction = "MANYTOONE" \/ (attr.direction = "ONETOMANY" /\ ~attr.uselist)
         THEN Returned(<<Built("HasOne", attr.key, slugify_class_name(attr.entity), "")>>)
         ELSE Returned(<<Built("HasMany", attr.key, slugify_class_name(attr.entity), "")>>)
    ELSE IF attr.kind = "ColumnProperty"
    THEN IF Len(attr.columns) # 1 THEN Raised("AssertionError")
         ELSE IF attr.columns[1].foreign_keys THEN Returned(<<>>)
         ELSE column_field(table, attr, attr.columns[1])
    ELSE Returned(<<>>)

\* the loop body of normalize_fields for one entry of the list
normalize_entry(table, field, mapper) ==
    IF field.e = "BaseField" THEN Returned(<<Same_object(field.id)>>)
    ELSE normalize_attr(table, attrs_get(mapper, field.key))

\* the loop body clearing the required flag of a BaseField given in the list
entry_heap_sets_required(h, field) ==
    IF field.e = "BaseField" THEN [h EXCEPT ![field.id].required = FALSE] ELSE h

\* what the loop body does to the caller's objects for one entry: nothing
entry_heap(h, field) == h

RECURSIVE normalize_fields_from(_, _, _, _, _, _)
RECURSIVE after_entry(_, _, _, _, _, _, _)
\* the loop of normalize_fields over fields[i..], converted_fields being acc
\* and the caller's objects h: the outcome, and the caller's objects after
normalize_fields_from(table, fields, mapper, h, i, acc) ==
    IF i > Len(fields) THEN [out |-> Returned(acc), heap |-> h]
    ELSE after_entry(normalize_entry(table, fields[i], mapper), table, fields, mapper,
                     entry_heap(h, fields[i]), i, acc)

\* the loop putting each new field before the ones converted so far
after_entry_prepend(step, table, fields, mapper, h, i, acc) ==
    IF step.exc # "none" THEN [out |-> step, heap |-> h]
    ELSE normalize_fields_from(table, fields, mapper, h, i + 1, step.val \o acc)

\* the loop after the body has run for fields[i], step being its outcome: an
\* exception ends the call, else the loop goes on
after_entry(step, table, fields, mapper, h, i, acc) ==
    IF step.exc # "none" THEN [out |-> step, heap |-> h]
    ELSE normalize_fields_from(table, fields, mapper, h, i + 1, acc \o step.val)

\* normalize_fields(fields, mapper)
normalize_fields(table, fields, mapper, h) ==
    normalize_fields_from(table, fields, mapper, h, 1, <<>>)

RECURSIVE normalize_list_from(_, _)
\* the loop of normalize_list over arr[i..]
normalize_list_from(arr, i) ==
    IF i > Len(arr) THEN Returned(<<>>)
    ELSE IF arr[i].e \notin {"InstrumentedAttribute", "str"} THEN Raised("ValueError")
    ELSE LET rest == normalize_list_from(arr, i + 1)
         IN IF rest.exc # "none" THEN rest ELSE Returned(<<arr[i].key>> \o rest.val)

\* normalize_list(arr); arr.isNone stands for the argument None, and the
\* value "None" for the None returned
normalize_list(arr) ==
    IF arr.isNone THEN Returned("None") ELSE normalize_list_from(arr.items, 1)

---------------------------------------------------------------------------
(* The inputs the calls are made with *)

\* the sequences over S of length lo..hi
SeqsOf(S, lo, hi) == UNION {[1..n -> S] : n \in lo..hi}

\* whether the entries of a dictionary have distinct keys
DistinctKeys(d) == \A i, j \in 1..Len(d) : i # j => d[i].key # d[j].key

IntVals == {Num(i) : i \in 0..MaxInt}
BoolVals == {Bool(TRUE), Bool(FALSE)}
StrVals == {Str(<<"a">>), Str(<<"b">>), Str(<<"a", "b">>)}

\* the values a row can hold in each column
ColumnVals(p) ==
    CASE p = "age" -> {None} \cup IntVals
      [] p = "active" -> {None} \cup BoolVals
      [] p = "name" -> {None} \cup StrVals

\* the rows that hold x in column p and NULL elsewhere
RowWith(p, x) == [c \in ModelAttrs |-> IF c = p THEN x ELSE None]

\* the rows over the columns age and active
Rows == {[c \in ModelAttrs |-> CASE c = "age" -> a [] c = "active" -> b [] OTHER -> None] :
            a \in ColumnVals("age"), b \in ColumnVals("active")}

\* the comparison values tried against each column
CompareVals(p) ==
    CASE p = "age" -> {None} \cup BoolVals \cup IntVals
      [] p = "active" -> {None} \cup BoolVals
      [] p = "name" -> {None} \cup StrVals

\* the operator entries with plain values, per column
PlainEntries(p) ==
    {OpEntry(k, <<v>>, <<>>) : k \in {"eq", "neq"}, v \in CompareVals(p)}
    \cup (IF p = "age"
          THEN {OpEntry(k, <<v>>, <<>>) : k \in {"ge", "gt", "le", "lt"}, v \in IntVals}
               \cup {OpEntry(k, <<lo, hi>>, <<>>) :
                        k \in {"between", "not_between"}, lo \in IntVals, hi \in IntVals}
               \cup {OpEntry(k, vs, <<>>) :
                        k \in {"in", "not_in"},
                        vs \in {<<Num(0)>>, <<Num(0), Num(MaxInt)>>, <<Num(MaxInt), None>>}}
          ELSE {})
    \cup (IF p = "name"
          THEN {OpEntry(k, <<v>>, <<>>) :
                    k \in {"contains", "startsWith", "endsWith"}, v \in StrVals}
          ELSE {})
    \cup {OpEntry("like", <<Num(0)>>, <<>>)}

\* operator dictionaries of one or two plain entries
PlainDicts(p) ==
    {<<e>> : e \in PlainEntries(p)}
    \cup {d \in {<<e1, e2>> : e1 \in PlainEntries(p),
                              e2 \in {OpEntry("neq", <<None>>, <<>>),
                                      OpEntry("eq", <<Bool(TRUE)>>, <<>>),
                                      OpEntry("le", <<Num(MaxInt)>>, <<>>)}} :
            DistinctKeys(d)}

\* the operator dictionaries expression is called with: empty, plain, a
\* "not" over a plain one, and a "not" beside a plain entry
OpDicts(p) ==
    {<<>>} \cup PlainDicts(p)
    \cup {<<OpEntry("not", <<>>, w)>> : w \in PlainDicts(p)}
    \cup {<<OpEntry("not", <<>>, <<OpEntry("not", <<>>, <<e>>)>>)>> : e \in PlainEntries(p)}
    \cup {<<e, OpEntry("not", <<>>, <<e2>>)>> :
            e \in {OpEntry("neq", <<None>>, <<>>)}, e2 \in PlainEntries(p)}

\* the operator dictionaries used under the attribute keys of a filter
LeafDicts(p) ==
    CASE p = "age" -> {<<>>, <<OpEntry("eq", <<Num(0)>>, <<>>)>>,
                       <<OpEntry("ge", <<Num(MaxInt)>>, <<>>), OpEntry("neq", <<None>>, <<>>)>>,
                       <<OpEntry("not", <<>>, <<OpEntry("eq", <<Num(0)>>, <<>>)>>)>>}
      [] p = "active" -> {<<OpEntry("eq", <<Bool(TRUE)>>, <<>>)>>,
                          <<OpEntry("neq", <<Bool(TRUE)>>, <<>>)>>}
      [] OTHER -> {<<OpEntry("eq", <<Num(0)>>, <<>>)>>}

\* attribute entries of a filter dictionary; "zz" is no attribute of the model
AttrEntries == {FEntry(p, <<>>, d) : p \in {"age"}, d \in LeafDicts("age")}
               \cup {FEntry(p, <<>>, d) : p \in {"active"}, d \in LeafDicts("active")}
               \cup {FEntry(p, <<>>, d) : p \in {"zz"}, d \in LeafDicts("zz")}

\* filter dictionaries without "and"/"or"
Filters0 == {<<>>} \cup {<<e>> : e \in AttrEntries}
            \cup {d \in {<<e1, e2>> : e1 \in AttrEntries, e2 \in AttrEntries} : DistinctKeys(d)}

\* the filter dictionaries listed under "and"/"or"
Listed0 == {<<>>} \cup {<<e>> : e \in AttrEntries}
           \cup {<<FEntry("age", <<>>, <<OpEntry("eq", <<Num(0)>>, <<>>)>>),
                   FEntry("active", <<>>, <<OpEntry("eq", <<Bool(TRUE)>>, <<>>)>>)>>}

Combinators == {"and", "or"}

\* one "and"/"or" entry over a list of 1..MaxList dictionaries of Listed0,
\* alone or beside an attribute entry
Filters1 ==
    LET comb == {FEntry(c, l, <<>>) : c \in Combinators, l \in SeqsOf(Listed0, 1, MaxList)}
        beside == {FEntry("age", <<>>, <<OpEntry("eq", <<Num(0)>>, <<>>)>>),
                   FEntry("zz", <<>>, <<OpEntry("eq", <<Num(0)>>, <<>>)>>)}
    IN {<<e>> : e \in comb}
       \cup {<<a, e>> : a \in beside, e \in comb}
       \cup {<<e, a>> : a \in beside, e \in comb}

\* "and"/"or" nested in "and"/"or", and both keys in one dictionary
Filters2 ==
    LET tiny == {<<>>, <<FEntry("age", <<>>, <<OpEntry("eq", <<Num(0)>>, <<>>)>>)>>,
                 <<FEntry("active", <<>>, <<OpEntry("eq", <<Bool(TRUE)>>, <<>>)>>)>>}
        inner == {<<FEntry(c, l, <<>>)>> : c \in Combinators, l \in SeqsOf(tiny, 1, MaxList)}
    IN {<<FEntry(c, <<f>>, <<>>)>> : c \in Combinators, f \in inner}
       \cup {<<FEntry(c, <<f, g>>, <<>>)>> : c \in Combinators, f \in inner, g \in tiny}
       \cup {<<FEntry("or", <<f>>, <<>>), FEntry("and", <<g>>, <<>>)>> : f \in inner, g \in tiny}

Filters == Filters0 \cup Filters1 \cup Filters2

\* order entries are put together from their parts: leading whitespace, the
\* attribute name, the whitespace after it, the direction and trailing
\* whitespace; the code sees the string only
OEntry(lead, key, sep, word, trail) ==
    [lead |-> lead, key |-> key, sep |-> sep, word |-> word, trail |-> trail]

\* the string of an order entry
raw(e) == e.lead \o e.key \o e.sep \o e.word \o e.trail

\* an order list holds 0..MaxOrder entries
MaxOrder == 2

OrderKeys == {<<"a", "g", "e">>, <<"n", "a", "m", "e">>, <<"z", "z">>}

\* every spelling of "desc" in upper and lower case letters
DescSpellings ==
    {<<d, e, s, c>> : d \in {"d", "D"}, e \in {"e", "E"}, s \in {"s", "S"}, c \in {"c", "C"}}

\* direction words: some spellings of "desc", and words that are not "desc"
DirectionWords ==
    {<<"d", "e", "s", "c">>, <<"D", "E", "S", "C">>, <<"D", "e", "s", "c">>,
     <<"a", "s", "c">>, <<"d", "e", "s">>, <<"d", "e", "s", "c", "x">>, <<"x">>}

OrderEntries ==
    {OEntry(<<>>, k, <<" ">>, w, <<>>) : k \in OrderKeys, w \in DirectionWords}
    \cup {OEntry(l, <<"a", "g", "e">>, s, w, t) :
            l \in {<<>>, <<" ">>}, s \in {<<" ", " ">>, <<"\t">>}, t \in {<<>>, <<" ", "\t">>},
            w \in {<<"D", "E", "S", "C">>, <<"a", "s", "c">>}}
    \* a direction of two words, and entries without a direction
    \cup {OEntry(<<>>, <<"a", "g", "e">>, <<" ">>, <<"d", "e", "s", "c", " ", "x">>, <<>>),
          OEntry(<<>>, <<"a", "g", "e">>, <<>>, <<>>, <<>>),
          OEntry(<<>>, <<"z", "z">>, <<>>, <<>>, <<" ">>),
          OEntry(<<" ">>, <<>>, <<>>, <<>>, <<>>)}

OrderLists == SeqsOf(OrderEntries, 0, MaxOrder)

\* the columns convert_to_field is called with: every class as the type
Columns == {Col(c, d) : c \in DOMAIN Classes \ {"object"}, d \in {DimNone, 1, 2}}

\* the columns of the mapper's property "c": every combination of the flags
\* for two types, and further types with one setting of the flags
MapperColumns ==
    {[Col(c, DimNone) EXCEPT !.nullable = n, !.default = d, !.server_default = s,
                             !.foreign_keys = f] :
        c \in {"String", "Boolean"}, n \in BOOLEAN, d \in BOOLEAN, s \in BOOLEAN,
        f \in BOOLEAN}
    \cup {[Col(c, DimNone) EXCEPT !.nullable = n] :
            c \in {"BIT2", "INET", "HSTORE", "MyInt", "Integer"}, n \in BOOLEAN}
    \cup {[Col("Enum", DimNone) EXCEPT !.enum_class = "Counter", !.nullable = FALSE],
          [Col("FileField", DimNone) EXCEPT !.multiple = TRUE],
          [Col("ImageField", DimNone) EXCEPT !.nullable = FALSE],
          [Col("JSON", DimNone) EXCEPT !.multiple = TRUE],
          [Col("PGARRAY", 1) EXCEPT !.nullable = FALSE], Col("ARRAY", 2),
          [Col("HSTORE", DimNone) EXCEPT !.foreign_keys = TRUE]}

\* a mapper: its attrs, property "c" holding the given column
MapperWith(col) ==
    [k \in {"c", "owner", "items", "profile", "tags", "owner_id", "full", "syn"} |->
        CASE k = "c" -> Prop("ColumnProperty", k, "", FALSE, "", <<col>>)
          [] k = "owner" -> Prop("RelationshipProperty", k, "MANYTOONE", FALSE, "User", <<>>)
          [] k = "items" -> Prop("RelationshipProperty", k, "ONETOMANY", TRUE, "Item", <<>>)
          [] k = "profile" -> Prop("RelationshipProperty", k, "ONETOMANY", FALSE, "Profile", <<>>)
          [] k = "tags" -> Prop("RelationshipProperty", k, "MANYTOMANY", TRUE, "Tag", <<>>)
          [] k = "owner_id" ->
                Prop("ColumnProperty", k, "", FALSE, "",
                     <<[Col("Integer", DimNone) EXCEPT !.foreign_keys = TRUE]>>)
          [] k = "full" ->
                Prop("ColumnProperty", k, "", FALSE, "",
                     <<Col("String", DimNone), Col("String", DimNone)>>)
          [] k = "syn" -> Prop("SynonymProperty", k, "", FALSE, "", <<>>)]

\* the caller's BaseField instances
NFields == 2
Heap0 ==
    [id \in 1..NFields |->
        IF id = 1 THEN [cls |-> "StringField", name |-> "title", required |-> TRUE]
        ELSE [cls |-> "IntegerField", name |-> "count", required |-> FALSE]]

\* a fields list holds 0..MaxFields entries
MaxFields == 2

FieldEntries ==
    {FieldRef(1), FieldRef(2), StrEntry("c"), AttrEntry("c"), StrEntry("owner"),
     AttrEntry("items"), StrEntry("profile"), StrEntry("tags"), StrEntry("owner_id"),
     StrEntry("syn"), StrEntry("full"), StrEntry("missing"), AttrEntry("missing")}

FieldLists == SeqsOf(FieldEntries, 0, MaxFields)

\* the arguments of normalize_list: None, or a list
ListArgs ==
    {[isNone |-> TRUE, items |-> <<>>]}
    \cup {[isNone |-> FALSE, items |-> l] :
            l \in SeqsOf({AttrEntry("c"), StrEntry("name"), OtherEntry, FieldRef(1)}, 0, 2)}

---------------------------------------------------------------------------
(* The calls.  Each action is one call of a helper: it records the         *)
(* arguments, what the call returned or raised, and what the call left of  *)
(* the converters table and of the caller's objects.                       *)

NoRow == [c \in ModelAttrs |-> None]

Init ==
    /\ converters = ConvertersTable
    /\ heap = Heap0
    /\ pc = "start"
    /\ op = "none"
    /\ arg = <<>>
    /\ row = NoRow
    /\ ret = <<>>
    /\ raised = "none"
    /\ calls = 0

\* expression(where, p); the tree returned is then read for the row r
CallExpression(inputs) ==
    \E p \in ModelAttrs : \E where \in inputs[p] : \E x \in ColumnVals(p) :
        /\ op' = "expression"
        /\ arg' = [where |-> where, p |-> p]
        /\ row' = RowWith(p, x)
        /\ ret' = expression(where, p)
        /\ raised' = "none"
        /\ pc' = "done"
        /\ calls' = calls + 1
        /\ UNCHANGED <<converters, heap>>

\* build_query(where, model); the tree returned is then read for the row r
CallBuildQuery(inputs) ==
    \E where \in inputs : \E r \in Rows :
        /\ op' = "build_query"
        /\ arg' = where
        /\ row' = r
        /\ ret' = build_query(where, ModelAttrs)
        /\ raised' = "none"
        /\ pc' = "done"
        /\ calls' = calls + 1
        /\ UNCHANGED <<converters, heap>>

\* build_order_clauses(order_list, model), the entries given by their parts
CallBuildOrderClauses(inputs) ==
    \E entries \in inputs :
        LET r == build_order_clauses([i \in 1..Len(entries) |-> raw(entries[i])], ModelAttrs)
        IN /\ op' = "build_order_clauses"
           /\ arg' = entries
           /\ ret' = r.val
           /\ raised' = r.exc
           /\ pc' = "done"
           /\ calls' = calls + 1
           /\ UNCHANGED <<converters, heap, row>>

\* convert_to_field(column)
CallConvertToField(inputs) ==
    \E column \in inputs :
        LET r == convert_to_field(converters, column)
        IN /\ op' = "convert_to_field"
           /\ arg' = column
           /\ ret' = r.val
           /\ raised' = r.exc
           /\ pc' = "done"
           /\ calls' = calls + 1
           /\ UNCHANGED <<converters, heap, row>>

\* the state after a call of normalize_fields with outcome r
NormalizeFieldsDone(r, fields, mapper) ==
    /\ op' = "normalize_fields"
    /\ arg' = [fields |-> fields, mapper |-> mapper]
    /\ ret' = r.out.val
    /\ raised' = r.out.exc
    /\ heap' = r.heap
    /\ pc' = "done"
    /\ calls' = calls + 1
    /\ UNCHANGED <<converters, row>>

\* normalize_fields(fields, mapper)
CallNormalizeFields(lists, columns) ==
    \E fields \in lists : \E col \in columns :
        NormalizeFieldsDone(normalize_fields(converters, fields, MapperWith(col), heap),
                            fields, MapperWith(col))

\* normalize_list(arr)
CallNormalizeList(inputs) ==
    \E arr \in inputs :
        LET r == normalize_list(arr)
        IN /\ op' = "normalize_list"
           /\ arg' = arr
           /\ ret' = r.val
           /\ raised' = r.exc
           /\ pc' = "done"
           /\ calls' = calls + 1
           /\ UNCHANGED <<converters, heap, row>>

\* a single call of each helper, with arguments of the full input sets
Expression == pc = "start" /\ CallExpression([p \in ModelAttrs |-> OpDicts(p)])
BuildQuery == pc = "start" /\ CallBuildQuery(Filters)
BuildOrderClauses == pc = "start" /\ CallBuildOrderClauses(OrderLists)
ConvertToField == pc = "start" /\ CallConvertToField(Columns)
NormalizeFields == pc = "start" /\ CallNormalizeFields(FieldLists, MapperColumns)
NormalizeList == pc = "start" /\ CallNormalizeList(ListArgs)

Next ==
    \/ Expression
    \/ BuildQuery
    \/ BuildOrderClauses
    \/ ConvertToField
    \/ NormalizeFields
    \/ NormalizeList

Spec == Init /\ [][Next]_vars

---------------------------------------------------------------------------
(* Sequences of calls: each call starts in the state the calls before it   *)
(* left, up to MaxCalls calls, with arguments of smaller sets.             *)

MaxCalls == 3

SeqOpDicts == [p \in ModelAttrs |-> LeafDicts(p)]

SeqFilters ==
    {<<>>, <<FEntry("age", <<>>, <<OpEntry("eq", <<Num(0)>>, <<>>)>>)>>,
     <<FEntry("or", <<<<FEntry("zz", <<>>, <<OpEntry("eq", <<Num(0)>>, <<>>)>>)>>,
                      <<FEntry("active", <<>>, <<OpEntry("neq", <<Bool(TRUE)>>, <<>>)>>)>>>>,
              <<>>)>>}

SeqOrderLists ==
    SeqsOf({OEntry(<<>>, <<"a", "g", "e">>, <<" ">>, <<"D", "e", "s", "c">>, <<>>),
            OEntry(<<" ">>, <<"z", "z">>, <<" ">>, <<"a", "s", "c">>, <<>>),
            OEntry(<<>>, <<"a", "g", "e">>, <<>>, <<>>, <<>>)}, 0, 1)

SeqColumns == {Col(c, DimNone) : c \in {"String", "INET", "Enum", "MyInt", "HSTORE"}}

SeqFieldLists == SeqsOf({FieldRef(1), StrEntry("c"), StrEntry("missing")}, 0, MaxFields)

SeqMapperColumns == {Col("String", DimNone), [Col("Boolean", DimNone) EXCEPT !.nullable = FALSE]}

SeqListArgs ==
    {[isNone |-> TRUE, items |-> <<>>]}
    \cup {[isNone |-> FALSE, items |-> l] :
            l \in SeqsOf({AttrEntry("c"), StrEntry("name"), OtherEntry}, 0, 1)}

ThenExpression == calls < MaxCalls /\ CallExpression(SeqOpDicts)
ThenBuildQuery == calls < MaxCalls /\ CallBuildQuery(SeqFilters)
ThenBuildOrderClauses == calls < MaxCalls /\ CallBuildOrderClauses(SeqOrderLists)
ThenConvertToField == calls < MaxCalls /\ CallConvertToField(SeqColumns)
ThenNormalizeFields == calls < MaxCalls /\ CallNormalizeFields(SeqFieldLists, SeqMapperColumns)
ThenNormalizeList == calls < MaxCalls /\ CallNormalizeList(SeqListArgs)

NextCall ==
    \/ ThenExpression
    \/ ThenBuildQuery
    \/ ThenBuildOrderClauses
    \/ ThenConvertToField
    \/ ThenNormalizeFields
    \/ ThenNormalizeList

SpecCalls == Init /\ [][NextCall]_vars

---------------------------------------------------------------------------
(* The claims about convert_to_field *)

\* a class matches a key of the table by its module-qualified name, by its
\* bare name, or by the class name of its impl
MatchesKey(c) ==
    \/ type_string(c) \in DOMAIN ConvertersTable
    \/ Classes[c].name \in DOMAIN ConvertersTable
    \/ hasattr_impl(c) /\ impl_name(c) \in DOMAIN ConvertersTable

\* a column whose type is unsupported: an ARRAY of dimensions other than
\* None and 1, or another type no class of whose mro matches a key
Unsupported(column) ==
    IF isinstance(column.type, "ARRAY")
    THEN column.dimensions # DimNone /\ column.dimensions # 1
    ELSE \A c \in Range(getmro(column.type)) : ~MatchesKey(c)

\* C1: convert_to_field raises NotSupportedColumn, and returns no field
\* class, for every column whose type is unsupported.
C1_UnsupportedRaises ==
    (pc = "done" /\ op = "convert_to_field" /\ Unsupported(arg))
        => (raised = "NotSupportedColumn" /\ ret = Raised("NotSupportedColumn").val)

\* C1's case: an unsupported type that is no ARRAY, and one that is
C1_Witness ==
    /\ pc = "done" /\ op = "convert_to_field"
    /\ Unsupported(arg)
    /\ arg.type = "HSTORE"
    /\ raised = "NotSupportedColumn"

\* the class a key of the table names: the class of that bare name, of that
\* module-qualified name, or (the dialect keys) of that name under sqlalchemy
NamedBy(k, c) ==
    \/ Classes[c].name = k
    \/ type_string(c) = k
    \/ type_string(c) = "sqlalchemy." \o k

\* C7: every entry of the converters table is effective: a column whose type
\* is the class a key names is converted to the field class the table gives
\* for that key.
C7_EveryEntryEffective ==
    (pc = "done" /\ op = "convert_to_field")
        => \A k \in DOMAIN ConvertersTable :
              NamedBy(k, arg.type) => (raised = "none" /\ ret = ConvertersTable[k])

---------------------------------------------------------------------------
(* The claims about build_order_clauses *)

\* an order entry that is an attribute name of the model followed by a
\* direction word
WellFormed(e) ==
    /\ join(e.key) \in ModelAttrs
    /\ e.sep # <<>>
    /\ e.word # <<>> /\ \A i \in 1..Len(e.word) : ~IsSpace(e.word[i])

\* an order entry without its surrounding whitespace
Unpadded(e) == [e EXCEPT !.lead = <<>>, !.trail = <<>>]

\* C10: for every order list of well-formed entries, build_order_clauses
\* returns one clause per entry, in the order of the list; the i-th clause is
\* descending exactly when the i-th direction word is "desc" in any letter
\* case, else the plain attribute; surrounding whitespace changes nothing.
C10_OneClausePerEntry ==
    (pc = "done" /\ op = "build_order_clauses" /\ \A i \in 1..Len(arg) : WellFormed(arg[i]))
        => /\ raised = "none"
           /\ Len(ret) = Len(arg)
           /\ \A i \in 1..Len(arg) :
                 /\ ret[i].attr = join(arg[i].key)
                 /\ ret[i].desc = (arg[i].word \in DescSpellings)
           /\ ret = build_order_clauses([i \in 1..Len(arg) |-> raw(Unpadded(arg[i]))],
                                        ModelAttrs).val

\* C10's case: two entries, the first ascending with whitespace around it,
\* the second descending in capitals
C10_Witness ==
    /\ pc = "done" /\ op = "build_order_clauses" /\ raised = "none"
    /\ Len(arg) = 2 /\ WellFormed(arg[1]) /\ WellFormed(arg[2])
    /\ arg[1].lead # <<>> /\ arg[1].trail # <<>>
    /\ arg[2].word = <<"D", "E", "S", "C">>
    /\ Len(ret) = 2 /\ ~ret[1].desc /\ ret[2].desc

---------------------------------------------------------------------------
(* The claims about normalize_fields *)

\* the positions of a list whose entry is given by the key of a property
KeyedAt(fields, key) == {i \in 1..Len(fields) : fields[i].e # "BaseField" /\ fields[i].key = key}

\* the positions of the returned list that hold a field built under a name
BuiltAt(fields, name) == {i \in 1..Len(fields) : fields[i].ref = 0 /\ fields[i].name = name}

\* C8: for every single-column property handled by normalize_fields, a column
\* with foreign keys produces no field; otherwise the field produced has
\* required true exactly when the column is not nullable, its type is not
\* Boolean and it has neither a default nor a server default.
C8_RequiredFlag ==
    (pc = "done" /\ op = "normalize_fields" /\ raised = "none")
        => \A key \in DOMAIN arg.mapper :
              (arg.mapper[key].kind = "ColumnProperty" /\ Len(arg.mapper[key].columns) = 1)
                => LET column == arg.mapper[key].columns[1]
                   IN IF column.foreign_keys
                      THEN BuiltAt(ret, key) = {}
                      ELSE /\ Cardinality(BuiltAt(ret, key)) = Cardinality(KeyedAt(arg.fields, key))
                           /\ \A i \in BuiltAt(ret, key) :
                                 ret[i].required =
                                    (/\ ~column.nullable
                                     /\ "Boolean" \notin Range(getmro(column.type))
                                     /\ ~column.default
                                     /\ ~column.server_default)

\* C8's case: a column that is not nullable and has no default gives a
\* required field
C8_Witness ==
    /\ pc = "done" /\ op = "normalize_fields" /\ raised = "none"
    /\ arg.fields = <<StrEntry("c")>>
    /\ ~arg.mapper["c"].columns[1].nullable
    /\ ~arg.mapper["c"].columns[1].foreign_keys
    /\ Len(ret) = 1 /\ ret[1].required

\* how the loop body fails for an entry whose key the mapper has
FailsAs(e, mapper) ==
    IF e.e = "BaseField" \/ mapper[e.key].kind # "ColumnProperty" THEN "none"
    ELSE IF Len(mapper[e.key].columns) # 1 THEN "AssertionError"
    ELSE IF ~mapper[e.key].columns[1].foreign_keys /\ Unsupported(mapper[e.key].columns[1])
    THEN "NotSupportedColumn"
    ELSE "none"

\* an entry the loop body takes without an exception
ValidEntry(e, mapper) ==
    e.e = "BaseField" \/ (e.key \in DOMAIN mapper /\ FailsAs(e, mapper) = "none")

\* an entry that gives a field: a BaseField, a relationship, or a column
\* without foreign keys
GivesField(e, mapper) ==
    \/ e.e = "BaseField"
    \/ mapper[e.key].kind = "RelationshipProperty"
    \/ mapper[e.key].kind = "ColumnProperty" /\ ~mapper[e.key].columns[1].foreign_keys

\* the entries of a list that give a field, in the order of the list
Giving(fields, mapper) ==
    LET Test(e) == GivesField(e, mapper) IN SelectSeq(fields, Test)

\* C6: for every input list of valid entries, normalize_fields returns the
\* fields in input order, exactly one per entry that is a BaseField, a
\* relationship or a non-foreign-key column, each generated field named by
\* the attribute key of its entry.
C6_OrderKept ==
    (pc = "done" /\ op = "normalize_fields"
        /\ \A i \in 1..Len(arg.fields) : ValidEntry(arg.fields[i], arg.mapper))
        => /\ raised = "none"
           /\ Len(ret) = Len(Giving(arg.fields, arg.mapper))
           /\ \A k \in 1..Len(Giving(arg.fields, arg.mapper)) :
                 IF Giving(arg.fields, arg.mapper)[k].e = "BaseField"
                 THEN ret[k].ref = Giving(arg.fields, arg.mapper)[k].id
                 ELSE ret[k].ref = 0 /\ ret[k].name = Giving(arg.fields, arg.mapper)[k].key

\* C6's case: a column entry before one of the caller's fields, a foreign-key
\* column between them or not
C6_Witness ==
    /\ pc = "done" /\ op = "normalize_fields" /\ raised = "none"
    /\ Len(arg.fields) >= 2
    /\ arg.fields[1] = StrEntry("c") /\ arg.fields[Len(arg.fields)] = FieldRef(1)
    /\ ~arg.mapper["c"].columns[1].foreign_keys
    /\ Len(ret) = 2 /\ ret[1].name = "c" /\ ret[2].ref = 1

\* a list with an entry that is no BaseField and whose key is no attribute
\* of the mapper
Missing(fields, mapper) ==
    {i \in 1..Len(fields) : fields[i].e # "BaseField" /\ fields[i].key \notin DOMAIN mapper}

\* the least member of a non-empty set of positions
Least(S) == CHOOSE i \in S : \A j \in S : i <= j

\* C2 as stated: normalize_fields raises ValueError for every input list with
\* an entry whose key is no attribute of the mapper, and returns no list.
C2_MissingRaisesValueError ==
    (pc = "done" /\ op = "normalize_fields" /\ Missing(arg.fields, arg.mapper) # {})
        => (raised = "ValueError" /\ ret = Raised("ValueError").val)

\* C2 amended: for every such list normalize_fields raises and returns no
\* list; the exception is ValueError unless an entry before the first such
\* entry raised before (AssertionError for a property of several columns,
\* NotSupportedColumn for a column of unsupported type), and then it is that
\* entry's exception.
C2_MissingRaises ==
    (pc = "done" /\ op = "normalize_fields" /\ Missing(arg.fields, arg.mapper) # {})
        => LET first == Least(Missing(arg.fields, arg.mapper))
               failing == {j \in 1..(first - 1) : FailsAs(arg.fields[j], arg.mapper) # "none"}
           IN /\ ret = Raised("ValueError").val
              /\ raised = IF failing = {} THEN "ValueError"
                          ELSE FailsAs(arg.fields[Least(failing)], arg.mapper)

\* C2's case: a valid entry, for which a field was built, before the entry
\* the mapper does not have
C2_Witness ==
    /\ pc = "done" /\ op = "normalize_fields"
    /\ Len(arg.fields) = 2
    /\ arg.fields[1] = StrEntry("owner")
    /\ Missing(arg.fields, arg.mapper) = {2}
    /\ raised = "ValueError"

---------------------------------------------------------------------------
(* The claims about build_query and expression *)

RECURSIVE HasUnknown(_)
\* a filter dictionary with a key, at any depth, that is neither "and"/"or"
\* nor an attribute of the model
HasUnknown(where) ==
    \E i \in 1..Len(where) :
        IF where[i].key \in Combinators
        THEN \E j \in 1..Len(where[i].sub) : HasUnknown(where[i].sub[j])
        ELSE where[i].key \notin ModelAttrs

RECURSIVE Known(_)
\* a filter dictionary without the keys, at any depth, that name no attribute
Known(where) ==
    LET Keep(e) == e.key \in Combinators \cup ModelAttrs
        kept == SelectSeq(where, Keep)
    IN [i \in 1..Len(kept) |->
            IF kept[i].key \in Combinators
            THEN [kept[i] EXCEPT !.sub = [j \in 1..Len(kept[i].sub) |-> Known(kept[i].sub[j])]]
            ELSE kept[i]]

\* an order entry with an attribute name and a direction after it
HasDirection(e) == e.key # <<>> /\ e.sep # <<>> /\ e.word # <<>>

\* the entries of an order list that name an attribute of the model
KnownEntries(entries) ==
    LET Keep(e) == join(e.key) \in ModelAttrs IN SelectSeq(entries, Keep)

\* C3 as stated: build_query raises an error for every filter dictionary
\* with a key naming no attribute, build_order_clauses for every order list
\* with an entry naming no attribute.
C3_UnknownRaises ==
    /\ (pc = "done" /\ op = "build_query" /\ HasUnknown(arg)) => raised # "none"
    /\ (pc = "done" /\ op = "build_order_clauses"
            /\ \E i \in 1..Len(arg) : join(arg[i].key) \notin ModelAttrs) => raised # "none"

\* C3 amended: neither operation raises for a field reference the model does
\* not have: build_query returns what it returns for the dictionary without
\* the keys that name no attribute, and build_order_clauses, for a list whose
\* entries all have a direction, what it returns for the list without the
\* entries that name no attribute; it raises ValueError exactly when an
\* entry has no direction.
C3_UnknownSkipped ==
    /\ (pc = "done" /\ op = "build_query")
          => (raised = "none" /\ ret = build_query(Known(arg), ModelAttrs))
    /\ (pc = "done" /\ op = "build_order_clauses")
          => IF \A i \in 1..Len(arg) : HasDirection(arg[i])
             THEN /\ raised = "none"
                  /\ Len(ret) = Len(KnownEntries(arg))
                  /\ \A i \in 1..Len(ret) : ret[i].attr = join(KnownEntries(arg)[i].key)
             ELSE raised = "ValueError"

\* C3's case: a filter with a key naming no attribute beside one that does
C3_Witness ==
    /\ pc = "done" /\ op = "build_query" /\ raised = "none"
    /\ Len(arg) = 2 /\ arg[1].key = "age" /\ arg[2].key = "zz"
    /\ arg[1].ops # <<>>
    /\ ret = expression(arg[1].ops, "age")

RECURSIVE Holds(_, _)
\* the reference evaluation of a filter dictionary for a row: every entry
\* holds; an "or" entry holds when one of its dictionaries does, an "and"
\* entry when all do, an attribute entry when every operator of its
\* dictionary holds for the attribute
Holds(where, r) ==
    \A i \in 1..Len(where) :
        CASE where[i].key = "or" -> \E j \in 1..Len(where[i].sub) : Holds(where[i].sub[j], r)
          [] where[i].key = "and" -> \A j \in 1..Len(where[i].sub) : Holds(where[i].sub[j], r)
          [] OTHER ->
                \A k \in 1..Len(where[i].ops) :
                    Satisfies(r, expression(<<where[i].ops[k]>>, where[i].key))

RECURSIVE NonEmptyLists(_)
\* a filter dictionary whose "and"/"or" lists, at any depth, are not empty
NonEmptyLists(where) ==
    \A i \in 1..Len(where) :
        where[i].key \in Combinators
            => /\ where[i].sub # <<>>
               /\ \A j \in 1..Len(where[i].sub) : NonEmptyLists(where[i].sub[j])

\* C4: for every filter dictionary over "and"/"or" with non-empty lists and
\* attribute keys of the model and every row, the row satisfies the predicate build_query returns
\* exactly when the reference evaluation holds.
C4_MatchesReference ==
    (pc = "done" /\ op = "build_query" /\ ~HasUnknown(arg) /\ NonEmptyLists(arg))
        => (Satisfies(row, ret) <=> Holds(arg, row))


\* the operator keys expression knows
KnownOps == {"eq", "ge", "gt", "between", "not_between", "le", "lt", "in", "not_in",
             "contains", "startsWith", "endsWith", "not", "neq"}

\* a single-operator dictionary {"eq": v}
IsEq(where) == Len(where) = 1 /\ where[1].key = "eq"

\* a single-operator dictionary {"not": w}
IsNot(where) == Len(where) = 1 /\ where[1].key = "not"

\* the dictionary {"neq": v} for the v of {"eq": v}
NeqOf(where) == <<OpEntry("neq", where[1].v, <<>>)>>

\* v decides for the value x whether it is equal: v is None, or x is not None
\* and is a boolean whenever v is one
Decides(v, x) == v = None \/ (x # None /\ (IsBool(v) => IsBool(x)))

RECURSIVE Definite(_)
\* an operator dictionary that is true or false for every value but None: it
\* has an operator that expression knows, and no None among the values of
\* an operator other than eq/neq
Definite(w) ==
    /\ \E i \in 1..Len(w) : w[i].key \in KnownOps
    /\ \A i \in 1..Len(w) :
          /\ (w[i].key = "not" => Definite(w[i].w))
          /\ (w[i].key \notin {"eq", "neq", "not"}
                 => \A j \in 1..Len(w[i].v) : w[i].v[j] # None)

\* C9 as stated: for every attribute, comparison value v and row, the row
\* satisfies {"neq": v} exactly when it does not satisfy {"eq": v}, and for
\* every operator dictionary w it satisfies {"not": w} exactly when it does
\* not satisfy w.
C9_NegationConsistent ==
    /\ (pc = "done" /\ op = "expression" /\ IsEq(arg.where))
          => (Satisfies(row, expression(NeqOf(arg.where), arg.p)) <=> ~Satisfies(row, ret))
    /\ (pc = "done" /\ op = "expression" /\ IsNot(arg.where))
          => (Satisfies(row, ret) <=> ~Satisfies(row, expression(arg.where[1].w, arg.p)))

\* C9 amended: the row satisfies {"neq": v} exactly when it does not satisfy
\* {"eq": v} if v is None, or if its attribute value is not None and is a
\* boolean whenever v is one, while a row whose attribute value is None
\* satisfies neither when v is not None; and a row whose attribute value is
\* not None satisfies {"not": w} exactly when it does not satisfy w, for every
\* w with an operator that expression knows and without None among the
\* values of an operator other than eq/neq.
C9_NegationConsistentNonNull ==
    /\ (pc = "done" /\ op = "expression" /\ IsEq(arg.where)
            /\ Decides(arg.where[1].v[1], row[arg.p]))
          => (Satisfies(row, expression(NeqOf(arg.where), arg.p)) <=> ~Satisfies(row, ret))
    /\ (pc = "done" /\ op = "expression" /\ IsEq(arg.where)
            /\ arg.where[1].v[1] # None /\ row[arg.p] = None)
          => (~Satisfies(row, expression(NeqOf(arg.where), arg.p)) /\ ~Satisfies(row, ret))
    /\ (pc = "done" /\ op = "expression" /\ IsNot(arg.where)
            /\ row[arg.p] # None /\ Definite(arg.where[1].w))
          => (Satisfies(row, ret) <=> ~Satisfies(row, expression(arg.where[1].w, arg.p)))

\* C9's case: {"eq": True} for a row holding False, which {"neq": True} selects
C9_Witness ==
    /\ pc = "done" /\ op = "expression" /\ arg.p = "active"
    /\ arg.where = <<OpEntry("eq", <<Bool(TRUE)>>, <<>>)>>
    /\ row["active"] = Bool(FALSE)
    /\ ~Satisfies(row, ret)
    /\ Satisfies(row, expression(NeqOf(arg.where), arg.p))

---------------------------------------------------------------------------
(* The claim about what the calls leave alone, over sequences of calls *)

\* the outcome of the call op(a) made first, before any other call
first_call(o, a) ==
    CASE o = "expression" -> Returned(expression(a.where, a.p))
      [] o = "build_query" -> Returned(build_query(a, ModelAttrs))
      [] o = "build_order_clauses" ->
            build_order_clauses([i \in 1..Len(a) |-> raw(a[i])], ModelAttrs)
      [] o = "convert_to_field" -> convert_to_field(ConvertersTable, a)
      [] o = "normalize_fields" -> normalize_fields(ConvertersTable, a.fields, a.mapper, Heap0).out
      [] o = "normalize_list" -> normalize_list(a)

\* C5: after any sequence of calls the converters table is the one the
\* module defines and the BaseField instances given in fields lists are as
\* the caller made them, and the call just made returned or raised what it
\* does as the first call.
C5_CallsLeaveStateAlone ==
    /\ converters = ConvertersTable
    /\ heap = Heap0
    /\ pc = "done" => [exc |-> raised, val |-> ret] = first_call(op, arg)

\* C5's case: normalize_fields, after other calls, on a list holding a
\* BaseField instance whose required flag is set
C5_Witness ==
    /\ pc = "done" /\ calls = MaxCalls /\ op = "normalize_fields" /\ raised = "none"
    /\ Len(arg.fields) = 2 /\ arg.fields[1] = StrEntry("c") /\ arg.fields[2] = FieldRef(1)
    /\ ~arg.mapper["c"].columns[1].nullable
    /\ heap[1].required

====
